---- MODULE Spec2Model ----
(***************************************************************************)
(* Model of cmd/vkube/util.go: the universe lifecycle controller           *)
(* runDoWithUniverse, its interrupt listener goroutine, and                *)
(* openOrCreateUniverse.  Sessions run one after another in one process.   *)
(***************************************************************************)
EXTENDS Integers, Sequences, FiniteSets, TLC

\* ---------------------------------------------------------------- bounds
MaxSessions == 2

Sessions == 1..MaxSessions

\* Snapshot names, the empty name included (flags.snapshot, flags.saveName).
Names == {"", "base", "alt"}
\* Values of the --universe flag; "" is the unset flag.
Dirs == {"", "/tmp/env1"}

\* ---------------------------------------------------------------- errors
\* An error is the sequence of the parts of its message; nil is <<>>.
Nil == <<>>
\* fmt.Errorf("<prefix>: %v", err)
Errorf(prefix, err) == <<prefix>> \o err
\* errors.New(msg)
ErrorsNew(msg) == <<msg>>

WorkErrs == {<<"e1">>, <<"e2">>}
CreateErr == <<"create failed">>
OpenErr == <<"open failed">>
SaveErr == <<"save failed">>
CloseErr == <<"close failed">>

VARIABLES
    cur,        \* number of the running (or last finished) session, 0 before the first
    pc,         \* position of runDoWithUniverse
    flags,      \* *universeFlags of the session
    exists,     \* directories present on disk
    cancelled,  \* per session: ctx.Done() is closed
    fired,      \* per session: how many times ctx went from live to cancelled
    registered, \* sessions whose stop channel is registered with os/signal
    stop,       \* per session: number of signals buffered in the stop channel (cap 1)
    lpc,        \* per session: position of the listener goroutine
    signalled,  \* sessions whose stop channel ever received an interrupt
    st,         \* outcome of os.Stat in this session ("none" before)
    u,          \* the *virtuakube.Universe handle of the session
    calls,      \* calls made in this session on the provider, the work function and the handle
    phases,     \* positions entered in this session, in order
    waitEntry,  \* cancellation state seen on entering the wait
    err         \* value returned by runDoWithUniverse

vars == <<cur, pc, flags, exists, cancelled, fired, registered, stop, lpc,
          signalled, st, u, calls, phases, waitEntry, err>>

ctl == <<cur, pc, flags, exists, st, u, calls, phases, waitEntry, err>>

NoFlags == [dir |-> "", snapshot |-> "", wait |-> FALSE, save |-> FALSE, saveName |-> ""]
NoU == [valid |-> FALSE, closed |-> FALSE]

Init ==
    /\ cur = 0
    /\ pc = "Idle"
    /\ flags = NoFlags
    /\ exists \in SUBSET (Dirs \ {""})
    /\ cancelled = [s \in Sessions |-> FALSE]
    /\ fired = [s \in Sessions |-> 0]
    /\ registered = {}
    /\ stop = [s \in Sessions |-> 0]
    /\ lpc = [s \in Sessions |-> "none"]
    /\ signalled = {}
    /\ st = "none"
    /\ u = NoU
    /\ calls = <<>>
    /\ phases = <<>>
    /\ waitEntry = "none"
    /\ err = Nil

\* ------------------------------------------------- context.WithCancel
\* variant: Done reads as closed at any time
CtxDoneAlways(s) == TRUE

\* ctx.Done() is closed
CtxDone(s) == cancelled[s]

\* variant: every cancel() fires the event again
CancelRefires(s) ==
    /\ cancelled' = [cancelled EXCEPT ![s] = TRUE]
    /\ fired' = [fired EXCEPT ![s] = @ + 1]

\* cancel(): closes Done the first time, does nothing afterwards
Cancel(s) ==
    /\ cancelled' = [cancelled EXCEPT ![s] = TRUE]
    /\ fired' = [fired EXCEPT ![s] = IF cancelled[s] THEN @ ELSE @ + 1]

\* ------------------------------------------------- helpers
\* one call, with the position of runDoWithUniverse that made it
Call(op, arg, res) == [op |-> op, arg |-> arg, res |-> res, by |-> pc]

Goto(p) ==
    /\ pc' = p
    /\ phases' = Append(phases, p)

\* ------------------------------------------------- session start
\* runDoWithUniverse entry: context.WithCancel, signal.Notify, go listener
StartSession ==
    /\ pc \in {"Idle", "Closed"}
    /\ cur < MaxSessions
    /\ cur' = cur + 1
    /\ \E d \in Dirs, sn \in Names, w \in BOOLEAN, sv \in BOOLEAN, svn \in Names :
          flags' = [dir |-> d, snapshot |-> sn, wait |-> w, save |-> sv, saveName |-> svn]
    /\ registered' = registered \cup {cur + 1}
    /\ lpc' = [lpc EXCEPT ![cur + 1] = "select"]
    /\ st' = "none"
    /\ u' = NoU
    /\ calls' = <<>>
    /\ pc' = "Opening"
    /\ phases' = <<"Opening">>
    /\ waitEntry' = "none"
    /\ err' = Nil
    /\ UNCHANGED <<exists, cancelled, fired, stop, signalled>>

\* ------------------------------------------------- openOrCreateUniverse
\* os.Stat(dir): nil, or an error; any path can fail with a permission error
StatOutcomes(dir, ex) == IF dir \in ex THEN {"ok", "EACCES"} ELSE {"ENOENT", "EACCES"}
\* the error value os.Stat returned
StatErr(s) == IF s = "ok" THEN Nil ELSE <<s>>
\* variant: any stat error is taken for not-exists
IsNotExistAnyErr(s) == s # "ok"

\* os.IsNotExist(err)
IsNotExist(s) == s = "ENOENT"

\* virtuakube.Create(dir, cfg): error, or a new universe and its directory
Create(dir, s, ex) ==
    { [st |-> s, calls |-> <<Call("Create", "", r)>>, err |-> r,
       exists |-> IF r = Nil THEN ex \cup {dir} ELSE ex] : r \in {Nil, CreateErr} }

\* virtuakube.Open(dir, snapshot, cfg)
Open(dir, snapshot, s, ex) ==
    { [st |-> s, calls |-> <<Call("Open", snapshot, r)>>, err |-> r, exists |-> ex] :
        r \in {Nil, OpenErr} }

\* variant: the stat error is wrapped like the provider's errors
openOrCreateUniverseWrapsStat(dir, snapshot, ex) ==
    IF dir = ""
    THEN { [st |-> "none", calls |-> <<>>, exists |-> ex,
            err |-> ErrorsNew("universe directory not specified")] }
    ELSE UNION {
        IF IsNotExist(s)
        THEN { [o EXCEPT !.err = IF o.err # Nil THEN Errorf("getting universe", o.err) ELSE Nil] :
                 o \in Create(dir, s, ex) }
        ELSE IF StatErr(s) # Nil
        THEN { [st |-> s, calls |-> <<>>, exists |-> ex,
                err |-> Errorf("getting universe", StatErr(s))] }
        ELSE { [o EXCEPT !.err = IF o.err # Nil THEN Errorf("getting universe", o.err) ELSE Nil] :
                 o \in Open(dir, snapshot, s, ex) }
        : s \in StatOutcomes(dir, ex) }

\* The results openOrCreateUniverse can produce: the stat outcome, the
\* provider calls it made, its error and the directories on disk afterwards.
openOrCreateUniverse(dir, snapshot, ex) ==
    IF dir = ""
    THEN { [st |-> "none", calls |-> <<>>, exists |-> ex,
            err |-> ErrorsNew("universe directory not specified")] }
    ELSE UNION {
        IF IsNotExist(s)
        THEN { [o EXCEPT !.err = IF o.err # Nil THEN Errorf("getting universe", o.err) ELSE Nil] :
                 o \in Create(dir, s, ex) }
        ELSE IF StatErr(s) # Nil
        THEN { [st |-> s, calls |-> <<>>, exists |-> ex, err |-> StatErr(s)] }
        ELSE { [o EXCEPT !.err = IF o.err # Nil THEN Errorf("getting universe", o.err) ELSE Nil] :
                 o \in Open(dir, snapshot, s, ex) }
        : s \in StatOutcomes(dir, ex) }

\* ------------------------------------------------- the Universe handle
\* Close(): idempotent, nil on a handle already finalized
CloseResults(h) == IF h.closed THEN {Nil} ELSE {Nil, CloseErr}
AfterClose(h, r) == IF r = Nil THEN [h EXCEPT !.closed = TRUE] ELSE h
\* Save(name)
SaveResults(h) == {Nil, SaveErr}
AfterSave(h, r) == IF r = Nil THEN [h EXCEPT !.closed = TRUE] ELSE h

\* ------------------------------------------------- runDoWithUniverse
\* variant: the open error is not checked
OpenFailedIgnored(e) == FALSE

\* if err != nil after openOrCreateUniverse
OpenFailed(e) == e # Nil

\* u, err := openOrCreateUniverse(...); on error return "Getting universe: ...",
\* otherwise defer u.Close()
OpenOrCreate ==
    /\ pc = "Opening"
    /\ \E o \in openOrCreateUniverse(flags.dir, flags.snapshot, exists) :
          /\ st' = o.st
          /\ calls' = calls \o o.calls
          /\ exists' = o.exists
          /\ IF OpenFailed(o.err)
             THEN /\ err' = Errorf("Getting universe", o.err)
                  /\ u' = u
                  /\ Goto("DeferCancel")
             ELSE /\ err' = err
                  /\ u' = [valid |-> o.err = Nil, closed |-> FALSE]
                  /\ Goto("Running")
    /\ UNCHANGED <<cur, flags, cancelled, fired, registered, stop, lpc,
                   signalled, waitEntry>>

\* variant: the work error is not checked
WorkFailedIgnored(e) == FALSE

\* if err := do(u); err != nil
WorkFailed(e) == e # Nil
\* variant: the work error is returned wrapped
WorkReturnWrapped(e) == Errorf("Running universe", e)

\* return err
WorkReturn(e) == e

\* variant: a failed work function is run once more
WorkRetriesOnce ==
    /\ pc = "Running"
    /\ \E r \in {Nil} \cup WorkErrs :
          /\ calls' = Append(calls, Call("do", "", r))
          /\ IF WorkFailed(r)
             THEN /\ err' = WorkReturn(r)
                  /\ waitEntry' = waitEntry
                  /\ IF Len(calls) < 2 THEN Goto("Running") ELSE Goto("DeferClose")
             ELSE /\ err' = err
                  /\ IF flags.wait
                     THEN /\ waitEntry' = IF cancelled[cur] THEN "fired" ELSE "unfired"
                          /\ Goto("Waiting")
                     ELSE /\ waitEntry' = waitEntry
                          /\ Goto("Finalizing")
    /\ UNCHANGED <<cur, flags, exists, cancelled, fired, registered, stop, lpc,
                   signalled, st, u>>

\* variant: the work is not run once the context is cancelled
WorkAbortsOnCancel ==
    /\ pc = "Running"
    /\ IF cancelled[cur]
       THEN /\ err' = <<"context canceled">>
            /\ UNCHANGED <<calls, waitEntry>>
            /\ Goto("DeferClose")
       ELSE \E r \in {Nil} \cup WorkErrs :
               /\ calls' = Append(calls, Call("do", "", r))
               /\ IF WorkFailed(r)
                  THEN /\ err' = WorkReturn(r)
                       /\ waitEntry' = waitEntry
                       /\ Goto("DeferClose")
                  ELSE /\ err' = err
                       /\ IF flags.wait
                          THEN /\ waitEntry' = IF cancelled[cur] THEN "fired" ELSE "unfired"
                               /\ Goto("Waiting")
                          ELSE /\ waitEntry' = waitEntry
                               /\ Goto("Finalizing")
    /\ UNCHANGED <<cur, flags, exists, cancelled, fired, registered, stop, lpc,
                   signalled, st, u>>

\* do(u), then the early return on error or the step to the wait / finalization
Work ==
    /\ pc = "Running"
    /\ \E r \in {Nil} \cup WorkErrs :
          /\ calls' = Append(calls, Call("do", "", r))
          /\ IF WorkFailed(r)
             THEN /\ err' = WorkReturn(r)
                  /\ waitEntry' = waitEntry
                  /\ Goto("DeferClose")
             ELSE /\ err' = err
                  /\ IF flags.wait
                     THEN /\ waitEntry' = IF cancelled[cur] THEN "fired" ELSE "unfired"
                          /\ Goto("Waiting")
                     ELSE /\ waitEntry' = waitEntry
                          /\ Goto("Finalizing")
    /\ UNCHANGED <<cur, flags, exists, cancelled, fired, registered, stop, lpc,
                   signalled, st, u>>

\* variant: the wait reads the stop channel itself
WaitDoneOnStop ==
    /\ pc = "Waiting"
    /\ stop[cur] > 0
    /\ stop' = [stop EXCEPT ![cur] = @ - 1]
    /\ Goto("Finalizing")
    /\ UNCHANGED <<cur, flags, exists, cancelled, fired, registered, lpc,
                   signalled, st, u, calls, waitEntry, err>>

\* <-ctx.Done()
WaitDone ==
    /\ pc = "Waiting"
    /\ CtxDone(cur)
    /\ Goto("Finalizing")
    /\ UNCHANGED <<cur, flags, exists, cancelled, fired, registered, stop, lpc,
                   signalled, st, u, calls, waitEntry, err>>

\* variant: the opened snapshot wins over the override
SaveNameSnapshotFirst(saveName, snapshot) ==
    IF snapshot # "" THEN snapshot ELSE saveName

\* the snapshot name passed to Save
SaveName(saveName, snapshot) ==
    IF saveName = "" /\ saveName # snapshot THEN snapshot ELSE saveName

\* variant: a failed Save is followed by a fallback Close
FinalizeFallbackClose ==
    /\ pc = "Finalizing"
    /\ IF flags.save
       THEN \E r \in SaveResults(u) :
               /\ err' = IF r # Nil THEN Errorf("Saving universe", r) ELSE Nil
               /\ IF r # Nil
                  THEN \E c \in CloseResults(u) :
                          /\ calls' = calls \o
                                <<Call("Save", SaveName(flags.saveName, flags.snapshot), r),
                                  Call("Close", "", c)>>
                          /\ u' = AfterClose(u, c)
                  ELSE /\ calls' = Append(calls, Call("Save", SaveName(flags.saveName, flags.snapshot), r))
                       /\ u' = AfterSave(u, r)
       ELSE \E r \in CloseResults(u) :
               /\ calls' = Append(calls, Call("Close", "", r))
               /\ u' = AfterClose(u, r)
               /\ err' = IF r # Nil THEN Errorf("Closing universe", r) ELSE Nil
    /\ Goto("DeferClose")
    /\ UNCHANGED <<cur, flags, exists, cancelled, fired, registered, stop, lpc,
                   signalled, st, waitEntry>>

\* variant: the error of the Finalizing call is not returned
FinalizeSwallows ==
    /\ pc = "Finalizing"
    /\ IF flags.save
       THEN \E r \in SaveResults(u) :
               /\ calls' = Append(calls, Call("Save", SaveName(flags.saveName, flags.snapshot), r))
               /\ u' = AfterSave(u, r)
       ELSE \E r \in CloseResults(u) :
               /\ calls' = Append(calls, Call("Close", "", r))
               /\ u' = AfterClose(u, r)
    /\ err' = Nil
    /\ Goto("DeferClose")
    /\ UNCHANGED <<cur, flags, exists, cancelled, fired, registered, stop, lpc,
                   signalled, st, waitEntry>>

\* if flags.save { u.Save(saveName) } else { u.Close() }; return
Finalize ==
    /\ pc = "Finalizing"
    /\ IF flags.save
       THEN \E r \in SaveResults(u) :
               /\ calls' = Append(calls, Call("Save", SaveName(flags.saveName, flags.snapshot), r))
               /\ u' = AfterSave(u, r)
               /\ err' = IF r # Nil THEN Errorf("Saving universe", r) ELSE Nil
       ELSE \E r \in CloseResults(u) :
               /\ calls' = Append(calls, Call("Close", "", r))
               /\ u' = AfterClose(u, r)
               /\ err' = IF r # Nil THEN Errorf("Closing universe", r) ELSE Nil
    /\ Goto("DeferClose")
    /\ UNCHANGED <<cur, flags, exists, cancelled, fired, registered, stop, lpc,
                   signalled, st, waitEntry>>

\* variant: no deferred close
DeferredCloseMissing ==
    /\ pc = "DeferClose"
    /\ Goto("DeferCancel")
    /\ UNCHANGED <<cur, flags, exists, cancelled, fired, registered, stop, lpc,
                   signalled, st, u, calls, waitEntry, err>>

\* variant: the deferred close is skipped once the Finalizing step made its call
DeferredCloseUnlessFinalized ==
    /\ pc = "DeferClose"
    /\ IF \E i \in DOMAIN calls : calls[i].by = "Finalizing"
       THEN UNCHANGED <<calls, u>>
       ELSE \E r \in CloseResults(u) :
               /\ calls' = Append(calls, Call("Close", "", r))
               /\ u' = AfterClose(u, r)
    /\ Goto("DeferCancel")
    /\ UNCHANGED <<cur, flags, exists, cancelled, fired, registered, stop, lpc,
                   signalled, st, waitEntry, err>>

\* defer u.Close(): runs on every return after a successful open, result dropped
DeferredClose ==
    /\ pc = "DeferClose"
    /\ \E r \in CloseResults(u) :
          /\ calls' = Append(calls, Call("Close", "", r))
          /\ u' = AfterClose(u, r)
    /\ Goto("DeferCancel")
    /\ UNCHANGED <<cur, flags, exists, cancelled, fired, registered, stop, lpc,
                   signalled, st, waitEntry, err>>

\* variant: the function returns without cancelling its context
DeferredCancelMissing ==
    /\ pc = "DeferCancel"
    /\ Goto("Closed")
    /\ UNCHANGED <<cur, flags, exists, cancelled, fired, registered, stop, lpc,
                   signalled, st, u, calls, waitEntry, err>>

\* defer cancel(): the last deferred call, then the function has returned
DeferredCancel ==
    /\ pc = "DeferCancel"
    /\ Cancel(cur)
    /\ Goto("Closed")
    /\ UNCHANGED <<cur, flags, exists, registered, stop, lpc, signalled,
                   st, u, calls, waitEntry, err>>

\* ------------------------------------------------- the listener goroutine
\* variant: the goroutine takes the signal and selects again
ListenerStopLoops(s) ==
    /\ lpc[s] = "select"
    /\ stop[s] > 0
    /\ stop' = [stop EXCEPT ![s] = @ - 1]
    /\ UNCHANGED <<ctl, cancelled, fired, registered, lpc, signalled>>

\* select { case <-stop: ... }
ListenerStop(s) ==
    /\ lpc[s] = "select"
    /\ stop[s] > 0
    /\ stop' = [stop EXCEPT ![s] = @ - 1]
    /\ lpc' = [lpc EXCEPT ![s] = "cancel"]
    /\ UNCHANGED <<ctl, cancelled, fired, registered, signalled>>

\* select { case <-ctx.Done(): ... }
ListenerDone(s) ==
    /\ lpc[s] = "select"
    /\ CtxDone(s)
    /\ lpc' = [lpc EXCEPT ![s] = "cancel"]
    /\ UNCHANGED <<ctl, cancelled, fired, registered, stop, signalled>>

\* defer cancel() of the goroutine, which then ends
ListenerCancel(s) ==
    /\ lpc[s] = "cancel"
    /\ Cancel(s)
    /\ lpc' = [lpc EXCEPT ![s] = "done"]
    /\ UNCHANGED <<ctl, registered, stop, signalled>>

\* ------------------------------------------------- the operating system
\* An os.Interrupt reaches the process: os/signal does a non-blocking send on
\* every channel registered with signal.Notify (a full channel drops it).
\* With no channel registered the signal ends the process, which is not modelled.
\* Any number of interrupts can arrive.
Interrupt ==
    /\ registered # {}
    /\ stop' = [s \in Sessions |-> IF s \in registered THEN 1 ELSE stop[s]]
    /\ signalled' = signalled \cup registered
    /\ UNCHANGED <<ctl, cancelled, fired, registered, lpc>>

Controller ==
    \/ OpenOrCreate
    \/ Work
    \/ WaitDone
    \/ Finalize
    \/ DeferredClose
    \/ DeferredCancel

Next ==
    \/ StartSession
    \/ OpenOrCreate
    \/ Work
    \/ WaitDone
    \/ Finalize
    \/ DeferredClose
    \/ DeferredCancel
    \/ \E s \in Sessions : ListenerStop(s)
    \/ \E s \in Sessions : ListenerDone(s)
    \/ \E s \in Sessions : ListenerCancel(s)
    \/ Interrupt

Spec == Init /\ [][Next]_vars

\* The goroutines are scheduled and every call returns; interrupts and new
\* sessions are up to the environment.
ListenerOf(s) == ListenerStop(s) \/ ListenerDone(s) \/ ListenerCancel(s)

FairSpec == Spec /\ WF_vars(Controller) /\ \A s \in Sessions : WF_vars(ListenerOf(s))

TypeOK ==
    /\ cur \in 0..MaxSessions
    /\ pc \in {"Idle", "Opening", "Running", "Waiting", "Finalizing",
               "DeferClose", "DeferCancel", "Closed"}
    /\ exists \subseteq Dirs
    /\ cancelled \in [Sessions -> BOOLEAN]
    /\ registered \subseteq Sessions
    /\ stop \in [Sessions -> 0..1]

\* ================================================================ properties
\* number of calls of one operation in this session
Count(op) == Cardinality({i \in DOMAIN calls : calls[i].op = op})
\* number of calls of one operation made from one position
CountBy(op, p) == Cardinality({i \in DOMAIN calls : calls[i].op = op /\ calls[i].by = p})
\* the environment was opened or created successfully in this session
Opened == u.valid
\* runDoWithUniverse has returned
Returned == pc = "Closed"
\* the work function ran and returned nil / an error
WorkOK == \E i \in DOMAIN calls : calls[i].op = "do" /\ calls[i].res = Nil
WorkErr == \E i \in DOMAIN calls : calls[i].op = "do" /\ calls[i].res # Nil
\* openOrCreateUniverse has returned
PastOpening == pc \notin {"Idle", "Opening"}
\* the directory was on disk when the session looked for it
DirExisted ==
    /\ flags.dir \in exists
    /\ ~ \E i \in DOMAIN calls : calls[i].op = "Create" /\ calls[i].res = Nil

\* C1 as stated: over a whole session with an opened environment exactly one
\* of Save and Close is called on the handle, the deferred close counted; and
\* with save=false, wait=false and successful work Close is called once, Save
\* never, and nil is returned.
C1_ExactlyOneCall ==
    (Returned /\ Opened) =>
        /\ (Count("Save") > 0) # (Count("Close") > 0)
        /\ Count("Save") + Count("Close") = 1
        /\ (~flags.save /\ ~flags.wait /\ WorkOK) =>
              (Count("Close") = 1 /\ Count("Save") = 0 /\ err = Nil)

\* C1 amended: in a session with an opened environment the finalization step
\* calls exactly one of Save and Close when the work succeeded (Save iff save
\* is set) and none when it failed, and the deferred close calls Close exactly
\* once more on every return; with save=false, wait=false and successful work
\* Close is called twice, Save never, and nil is returned iff the first Close
\* succeeded.
C1_FinalizeOnceThenDeferredClose ==
    (Returned /\ Opened) =>
        /\ CountBy("Close", "DeferClose") = 1
        /\ CountBy("Save", "DeferClose") = 0
        /\ CountBy("Save", "Finalizing") + CountBy("Close", "Finalizing")
              = (IF WorkOK THEN 1 ELSE 0)
        /\ WorkOK => (CountBy("Save", "Finalizing") = 1) = flags.save
        /\ Count("Save") = CountBy("Save", "Finalizing")
        /\ Count("Close") = CountBy("Close", "Finalizing") + 1
        /\ (~flags.save /\ ~flags.wait /\ WorkOK) =>
              /\ Count("Close") = 2
              /\ Count("Save") = 0
              /\ (err = Nil) = (\A i \in DOMAIN calls :
                                   (calls[i].op = "Close" /\ calls[i].by = "Finalizing")
                                       => calls[i].res = Nil)

C1_Witness ==
    /\ Returned /\ Opened /\ WorkOK /\ flags.save
    /\ Count("Save") = 1 /\ Count("Close") = 1

\* C2: when the work function returns an error, Save is never called in the
\* session, whatever the options, and the environment is closed on return.
C2_WorkErrorDiscards ==
    WorkErr =>
        /\ Count("Save") = 0
        /\ "Finalizing" \notin {phases[i] : i \in DOMAIN phases}
        /\ Returned => Count("Close") = 1

C2_Witness ==
    /\ Returned /\ WorkErr /\ flags.save /\ flags.saveName # "" /\ flags.wait
    /\ Count("Close") = 1

\* C3: when the work function returns error e, runDoWithUniverse returns e
\* itself, whatever the options and the outcome of the close.
C3_WorkErrorReturned ==
    \A i \in DOMAIN calls :
        (calls[i].op = "do" /\ calls[i].res # Nil) => err = calls[i].res

C3_Witness ==
    /\ Returned /\ WorkErr /\ err \in WorkErrs
    /\ \E i \in DOMAIN calls : calls[i].op = "Close" /\ calls[i].res # Nil

\* C4: the name passed to Save is the override when the override is not
\* empty, and the opened snapshot name otherwise; a session with save set
\* and successful work calls Save.
C4_SaveTarget ==
    /\ \A i \in DOMAIN calls :
          calls[i].op = "Save" =>
              calls[i].arg = (IF flags.saveName # "" THEN flags.saveName ELSE flags.snapshot)
    /\ (Returned /\ flags.save /\ WorkOK) => Count("Save") = 1

C4_Witness ==
    /\ flags.saveName # "" /\ flags.snapshot # "" /\ flags.saveName # flags.snapshot
    /\ \E i \in DOMAIN calls : calls[i].op = "Save" /\ calls[i].arg = flags.saveName

\* C5 as stated: for every directory argument, Create and not Open is called
\* when the directory does not exist, Open with the snapshot name and not
\* Create when it exists; never both and never neither.
C5_AlwaysCreateOrOpen ==
    PastOpening =>
        /\ ~DirExisted => (Count("Create") = 1 /\ Count("Open") = 0)
        /\ DirExisted => (Count("Open") = 1 /\ Count("Create") = 0)
        /\ Count("Create") + Count("Open") = 1

\* C5 amended: for a non-empty directory argument whose existence check
\* succeeds or reports not-exists, Create and not Open is called when the
\* directory does not exist and Open with the given snapshot name and not
\* Create when it exists; for the empty argument or a check failing with
\* another error neither is called; never both.
C5_CreateOrOpenByStat ==
    PastOpening =>
        /\ Count("Create") + Count("Open") <= 1
        /\ (flags.dir # "" /\ st # "EACCES" /\ ~DirExisted) =>
              (Count("Create") = 1 /\ Count("Open") = 0)
        /\ (flags.dir # "" /\ st # "EACCES" /\ DirExisted) =>
              /\ Count("Create") = 0
              /\ \E i \in DOMAIN calls : calls[i].op = "Open" /\ calls[i].arg = flags.snapshot
        /\ (flags.dir = "" \/ st = "EACCES") => Count("Create") + Count("Open") = 0

C5_Witness ==
    /\ PastOpening /\ flags.dir # "" /\ DirExisted /\ flags.snapshot = "base"
    /\ Count("Open") = 1

\* C6: in every session the cancellation event goes from not-fired to fired
\* at most once; once it has fired, no interrupt and no further cancel
\* changes it, and such an interrupt or listener cancel leaves the
\* controller's state as it is.
C6_CancelFiresOnce ==
    /\ [](\A s \in Sessions : fired[s] <= 1 /\ (cancelled[s] <=> fired[s] = 1))
    /\ [][\A s \in Sessions :
            cancelled[s] =>
                /\ cancelled'[s] /\ fired'[s] = fired[s]
                /\ (stop' # stop \/ lpc'[s] # lpc[s]) => UNCHANGED ctl]_vars

C6_Witness ==
    /\ Returned /\ stop[cur] = 1
    /\ lpc[cur] = "done" /\ cancelled[cur] /\ fired[cur] = 1
    /\ "Waiting" \in {phases[i] : i \in DOMAIN phases}

\* C7: when opening or creating the environment fails, runDoWithUniverse
\* returns a non-nil error at once: no work, no wait, no Save and no Close.
C7_OpenFailureIsFatal ==
    (PastOpening /\ ~Opened) =>
        /\ err # Nil
        /\ Count("do") = 0 /\ Count("Save") = 0 /\ Count("Close") = 0
        /\ {phases[i] : i \in DOMAIN phases} \subseteq {"Opening", "DeferCancel", "Closed"}

C7_Witness ==
    /\ Returned /\ ~Opened /\ flags.wait /\ flags.save
    /\ \E i \in DOMAIN calls : calls[i].op = "Create" /\ calls[i].res # Nil

\* C8: the wait is entered only with wait set and successful work; while
\* waiting with the cancellation not fired the controller stays there and
\* calls nothing; a session that has left the wait was interrupted, so with
\* no interrupt it waits forever.
C8_WaitEndsOnlyOnCancel ==
    /\ []("Waiting" \in {phases[i] : i \in DOMAIN phases} =>
             /\ flags.wait /\ WorkOK
             /\ pc = "Waiting" => (Count("Save") = 0 /\ Count("Close") = 0 /\ err = Nil)
             /\ pc # "Waiting" => (cancelled[cur] /\ cur \in signalled))
    /\ []((flags.wait /\ WorkOK /\ cur \notin signalled) => pc = "Waiting")
    /\ [][(pc = "Waiting" /\ ~cancelled[cur]) => (pc' = "Waiting" /\ calls' = calls)]_vars

C8_Witness ==
    /\ pc = "Waiting" /\ ~cancelled[cur] /\ cur \notin signalled
    /\ cur > 1 /\ 1 \in signalled

\* C9: a wait entered or held with the cancellation already fired, or with
\* an interrupt already delivered to the session, ends with no further
\* interrupt: the controller goes on to the finalization.
C9_FiredCancelEndsWait ==
    (pc = "Waiting" /\ (cancelled[cur] \/ cur \in signalled)) ~> (pc = "Finalizing")

C9_Witness ==
    /\ pc = "Finalizing" /\ waitEntry = "fired" /\ stop[cur] = 0

\* C10: once the cancellation of a session has fired and its listener has
\* ended, the session's stop channel is no longer registered for interrupts.
C10_RegistrationReleased ==
    \A s \in Sessions : (cancelled[s] /\ lpc[s] = "done") => s \notin registered
\* the Finalizing step has been taken
PastFinalizing == pc \in {"DeferClose", "DeferCancel", "Closed"} /\ WorkOK
\* the calls the Finalizing step made on the handle
FinalCalls == {i \in DOMAIN calls : calls[i].by = "Finalizing"}
\* error ret carries failure e: the message of e is the tail of the message of ret
Carries(ret, e) == \E k \in 0..Len(ret) : SubSeq(ret, k + 1, Len(ret)) = e

\* C11 as stated: when save is requested, the work succeeded and Save fails,
\* a non-nil error tagged as a save failure is returned and no Close is
\* called on the handle afterwards in the session.
C11_NoCloseAfterFailedSave ==
    \A i \in DOMAIN calls :
        (calls[i].op = "Save" /\ calls[i].res # Nil /\ Returned) =>
            /\ err # Nil /\ Head(err) = "Saving universe"
            /\ \A j \in DOMAIN calls : j > i => calls[j].op # "Close"

\* C11 amended: when save is requested, the work succeeded and Save fails, a
\* non-nil error tagged as a save failure is returned, the Finalizing step
\* makes no further call, and the only call after the Save is the one deferred
\* Close, whose outcome does not change the returned error.
C11_FailedSaveThenDeferredCloseOnly ==
    \A i \in DOMAIN calls :
        (calls[i].op = "Save" /\ calls[i].res # Nil) =>
            /\ flags.save /\ WorkOK
            /\ err = Errorf("Saving universe", calls[i].res)
            /\ FinalCalls = {i}
            /\ \A j \in DOMAIN calls :
                  j > i => (j = i + 1 /\ calls[j].op = "Close" /\ calls[j].by = "DeferClose")
            /\ Returned => Len(calls) = i + 1

C11_Witness ==
    /\ Returned /\ err = Errorf("Saving universe", SaveErr)
    /\ calls[Len(calls)].op = "Close" /\ calls[Len(calls)].res # Nil

\* C12: when the work succeeded and the Save or Close of the Finalizing step
\* fails, the returned error is that failure tagged with its phase; a session
\* with successful work returns nil only if that call succeeded.
C12_FinalizationFailureReturned ==
    PastFinalizing =>
        /\ \A i \in FinalCalls :
              calls[i].res # Nil =>
                  /\ err = Errorf(IF calls[i].op = "Save" THEN "Saving universe"
                                  ELSE "Closing universe", calls[i].res)
                  /\ Carries(err, calls[i].res)
        /\ err = Nil => (FinalCalls # {} /\ \A i \in FinalCalls : calls[i].res = Nil)

C12_Witness ==
    /\ Returned /\ WorkOK /\ ~flags.save /\ flags.wait
    /\ err = Errorf("Closing universe", CloseErr)

\* C13: every call that failed in a session is carried by the non-nil error
\* the session returns, the deferred close included.
C13_NoErrorSwallowed ==
    Returned =>
        \A i \in DOMAIN calls :
            calls[i].res # Nil => (err # Nil /\ Carries(err, calls[i].res))
\* C14: in a session with an opened environment the deferred close is the
\* last call on the handle, after the Save or Close of the Finalizing step;
\* when that call succeeded the handle is closed, and the deferred close then
\* returns nil and changes nothing of the environment.
C14_DeferredCloseLastAndIdempotent ==
    /\ []((Returned /\ Opened) =>
            /\ calls[Len(calls)].op = "Close" /\ calls[Len(calls)].by = "DeferClose"
            /\ \A i \in FinalCalls : i < Len(calls)
            /\ \A i \in FinalCalls : calls[i].res = Nil => calls[Len(calls)].res = Nil)
    /\ []((pc = "DeferClose" /\ \E i \in FinalCalls : calls[i].res = Nil) => u.closed)
    /\ [][(pc = "DeferClose" /\ u.closed) => (u' = u /\ exists' = exists /\ err' = err)]_vars

C14_Witness ==
    /\ Returned /\ Opened /\ flags.save /\ u.closed
    /\ \E i \in FinalCalls : calls[i].op = "Save" /\ calls[i].res = Nil
    /\ calls[Len(calls)].by = "DeferClose" /\ calls[Len(calls)].res = Nil

\* the error of openOrCreateUniverse, read from the options, the stat outcome
\* and the provider call's result
OpenErrOf ==
    IF flags.dir = "" THEN ErrorsNew("universe directory not specified")
    ELSE IF st = "EACCES" THEN <<"EACCES">>
    ELSE IF calls # <<>> /\ calls[1].res # Nil THEN Errorf("getting universe", calls[1].res)
    ELSE Nil
\* the result of the work function, Nil when it was not run
WorkResOf == IF \E i \in DOMAIN calls : calls[i].op = "do"
             THEN (CHOOSE c \in {calls[i] : i \in DOMAIN calls} : c.op = "do").res
             ELSE Nil
\* the result of the Finalizing call, Nil when there was none
FinalResOf == IF FinalCalls # {} THEN calls[CHOOSE i \in FinalCalls : TRUE].res ELSE Nil
\* the error a session returns, as a function of its options and of the
\* outcomes of open, work, Save and Close alone
ExpectedErr ==
    IF OpenErrOf # Nil THEN Errorf("Getting universe", OpenErrOf)
    ELSE IF WorkResOf # Nil THEN WorkResOf
    ELSE IF FinalResOf # Nil
         THEN Errorf(IF flags.save THEN "Saving universe" ELSE "Closing universe", FinalResOf)
    ELSE Nil
\* the operations a session calls, in order, as a function of the same
ExpectedOps ==
    IF flags.dir = "" \/ st = "EACCES" THEN <<>>
    ELSE <<IF st = "ENOENT" THEN "Create" ELSE "Open">> \o
         (IF calls[1].res # Nil THEN <<>>
          ELSE <<"do">> \o
               (IF WorkResOf # Nil THEN <<>>
                ELSE <<IF flags.save THEN "Save" ELSE "Close">>) \o
               <<"Close">>)

\* C15: within a session interrupts and listener steps never change the
\* controller's state;
\* an opened session always runs the work function, and no Save or Close comes
\* before its return; the calls made, the Save target and the returned error
\* are determined by the options and the open/work/Save/Close outcomes alone,
\* interrupted or not.
C15_CancellationIsCooperative ==
    /\ [][(cur' = cur /\ (stop' # stop \/ lpc' # lpc)) => UNCHANGED ctl]_vars
    /\ [](\A i \in DOMAIN calls :
             calls[i].op \in {"Save", "Close"} =>
                \E j \in DOMAIN calls : j < i /\ calls[j].op = "do")
    /\ []((Opened /\ pc \notin {"Idle", "Opening", "Running"}) => Count("do") = 1)
    /\ [](Returned =>
            /\ err = ExpectedErr
            /\ [i \in DOMAIN calls |-> calls[i].op] = ExpectedOps
            /\ \A i \in DOMAIN calls :
                  calls[i].op = "Save" => calls[i].arg = SaveName(flags.saveName, flags.snapshot))

C15_Witness ==
    /\ Returned /\ Opened /\ ~flags.wait /\ flags.save
    /\ cur \in signalled /\ lpc[cur] = "done" /\ stop[cur] = 0
    /\ phases = <<"Opening", "Running", "Finalizing", "DeferClose", "DeferCancel", "Closed">>
\* the order of the positions of runDoWithUniverse; the two deferred calls
\* belong to the return out of Finalizing
Rank(p) ==
    CASE p = "Idle" -> 0
      [] p = "Opening" -> 1
      [] p = "Running" -> 2
      [] p = "Waiting" -> 3
      [] p = "Finalizing" -> 4
      [] p = "DeferClose" -> 5
      [] p = "DeferCancel" -> 6
      [] p = "Closed" -> 7

\* C16: within a session the controller only moves forward along Idle,
\* Opening, Running, Waiting, Finalizing, Closed: no position is entered
\* twice, the work function is called at most once and before any Save or
\* Close, and after Closed nothing of the session changes.
C16_PhasesMoveForward ==
    /\ [](\A i, j \in DOMAIN phases : i < j => Rank(phases[i]) < Rank(phases[j]))
    /\ [](Count("do") <= 1)
    /\ [](\A i, j \in DOMAIN calls :
             (calls[i].op = "do" /\ j < i) => calls[j].op \notin {"Save", "Close", "do"})
    /\ [][cur' = cur =>
            /\ Rank(pc') >= Rank(pc)
            /\ pc = "Closed" => UNCHANGED ctl]_vars

C16_Witness ==
    /\ phases = <<"Opening", "Running", "Waiting", "Finalizing",
                  "DeferClose", "DeferCancel", "Closed">>
    /\ pc = "Closed" /\ lpc[cur] = "done" /\ stop[cur] = 1

\* C17: when the existence check fails with an error other than not-exists,
\* neither Create nor Open is called and openOrCreateUniverse returns that
\* error as it is, so the caller's "Getting universe" is its only wrapping; an
\* error of Create or Open gets openOrCreateUniverse's own wrapping as well.
C17_StatErrorUnwrapped ==
    PastOpening =>
        /\ st = "EACCES" =>
              /\ Count("Create") + Count("Open") = 0
              /\ err = Errorf("Getting universe", <<"EACCES">>)
        /\ \A i \in DOMAIN calls :
              (calls[i].op \in {"Create", "Open"} /\ calls[i].res # Nil) =>
                  err = Errorf("Getting universe", Errorf("getting universe", calls[i].res))

C17_Witness ==
    /\ Returned /\ st = "EACCES" /\ flags.dir \in exists
    /\ err = <<"Getting universe", "EACCES">>
\* C18: with every call returning and the controller and the listeners
\* scheduled, a running session with wait unset, or one that an interrupt has
\* reached, eventually returns.
C18_SessionTerminates ==
    (pc \notin {"Idle", "Closed"} /\ (~flags.wait \/ cur \in signalled)) ~> (pc = "Closed")

C18_Witness ==
    /\ Returned /\ flags.wait /\ WorkOK /\ waitEntry = "unfired"
    /\ cur \in signalled /\ err = Nil

\* the listeners still running although their context is cancelled
Lingering == {s \in Sessions : cancelled[s] /\ lpc[s] \in {"select", "cancel"}}

\* C19: when runDoWithUniverse has returned, on any path, its context is
\* cancelled; and whenever listeners of cancelled contexts are still running,
\* a moment comes when none is: a cancelled context stays cancelled and an
\* ended listener stays ended, so each of them ends, interrupted or not.
C19_ListenerEnds ==
    /\ [](Returned => cancelled[cur])
    /\ [](\A s \in Sessions : s < cur => cancelled[s])
    /\ [][\A s \in Sessions : (lpc[s] = "done" => lpc'[s] = "done")
                           /\ (cancelled[s] => cancelled'[s])]_vars
    /\ (Lingering # {}) ~> (Lingering = {})

C19_Witness ==
    /\ Returned /\ ~Opened /\ cur \notin signalled
    /\ cancelled[cur] /\ lpc[cur] = "done"
====
